---- MODULE Spec2Model ----
(***************************************************************************)
(* Model of src/src/index.ts: a Hono HTTP service with two handlers.       *)
(*   POST /scrape  fetches a page, extracts the body text, writes a JSON   *)
(*                 record scrapes/scrape-<Date.now()>.json                 *)
(*   POST /query   picks a record (named, or newest by birthtimeMs), reads *)
(*                 and parses it, and asks the chat-completion provider.   *)
(* Every `await` of a handler is a point where other handlers, the startup *)
(* directory creation, the clock and the outside world may take steps, so  *)
(* each action below is the synchronous code between two awaits.           *)
(* Strings that are serialised are sequences of one-character strings.     *)
(***************************************************************************)
EXTENDS Integers, Sequences, FiniteSets, TLC

\* ---------------------------------------------------------------- bounds
MaxClock == 1       \* Date.now() ranges over 0..MaxClock
MaxConc == 2        \* handlers in flight at the same time

Reqs == 1..MaxConc
Times == 0..MaxClock

\* ------------------------------------------------------- request inputs
\* A JSON body field: absent (undefined) or a string.
Undefined == [has |-> FALSE, val |-> <<>>]
Str(s) == [has |-> TRUE, val |-> s]

\* url values of POST /scrape bodies: absent, empty, and an address (holding
\* a character JSON has to escape).
Urls == {Undefined, Str(<<>>), Str(<<"u", "\"">>)}

\* query values of POST /query bodies.
NoQuery == [has |-> FALSE, val |-> ""]
Queries == {NoQuery, [has |-> TRUE, val |-> ""], [has |-> TRUE, val |-> "What?"]}

\* Pages the target site may answer with: tags and text characters.
Tags == {"<p>", "</p>", "<b>", "</b>"}
Pages == { <<"<p>", "H", "i", "</p>">>,
           <<"<b>", "\"", "</b>", "\\", "\n">> }

\* Provider answers: a list of choices, each with or without message content.
Choice(c) == [hasMessage |-> TRUE, hasContent |-> TRUE, content |-> c]
NoContent == [hasMessage |-> TRUE, hasContent |-> FALSE, content |-> ""]
NoMessage == [hasMessage |-> FALSE, hasContent |-> FALSE, content |-> ""]
Completions == { <<>>, <<NoContent>>, <<NoMessage>>,
                 <<Choice("first"), Choice("second")>> }

\* ------------------------------------------------------ pure functions
\* !url (line 50): undefined and the empty string are falsy.
UrlMissing_EmptyAccepted(url) == ~url.has

UrlMissing(url) == ~url.has \/ url.val = <<>>

\* !query (line 93)
QueryMissing(query) == ~query.has \/ query.val = ""

\* $('body').text() (lines 59-62): the text nodes, tags stripped, in order.
IsText(tok) == tok \notin Tags
BodyText(html) == SelectSeq(html, IsText)

\* Decimal digits of a natural number, as `${n}` prints it.
Digit(d) == <<"0", "1", "2", "3", "4", "5", "6", "7", "8", "9">>[d + 1]
RECURSIVE Decimal(_)
Decimal(n) == IF n < 10 THEN <<Digit(n)>> ELSE Decimal(n \div 10) \o <<Digit(n % 10)>>

\* new Date().toISOString() (line 67) for a clock of t milliseconds, t < 1000.
ToISOString(t) ==
    <<"1", "9", "7", "0", "-", "0", "1", "-", "0", "1", "T",
      "0", "0", ":", "0", "0", ":", "0", "0", ".">>
    \o <<Digit(t \div 100), Digit((t \div 10) % 10), Digit(t % 10)>> \o <<"Z">>

\* `scrape-${Date.now()}.json` (line 72)
Filename(t) == <<"scrape-">> \o Decimal(t) \o <<".json">>
Filenames == {Filename(t) : t \in Times}

\* JSON.stringify of a string: quotes, with ", \ and control characters escaped.
Escape_NoEscaping(c) == <<c>>

Escape(c) ==
    CASE c = "\"" -> <<"\\", "\"">>
      [] c = "\\" -> <<"\\", "\\">>
      [] c = "\n" -> <<"\\", "n">>
      [] c = "\t" -> <<"\\", "t">>
      [] c = "\r" -> <<"\\", "r">>
      [] OTHER -> <<c>>

RECURSIVE EscapeAll(_)
EscapeAll(s) == IF s = <<>> THEN <<>> ELSE Escape(Head(s)) \o EscapeAll(Tail(s))
Quote(s) == <<"\"">> \o EscapeAll(s) \o <<"\"">>

KeyUrl == <<"u", "r", "l">>
KeyTimestamp == <<"t", "i", "m", "e", "s", "t", "a", "m", "p">>
KeyData == <<"d", "a", "t", "a">>

\* JSON.stringify(scrape, null, 2) (line 76): the three members in insertion
\* order, each on its own line, indented by two spaces.
Indent == <<"\n", " ", " ">>
Stringify(scrape) ==
    <<"{">> \o Indent \o Quote(KeyUrl) \o <<":", " ">> \o Quote(scrape.url)
    \o <<",">> \o Indent \o Quote(KeyTimestamp) \o <<":", " ">> \o Quote(scrape.timestamp)
    \o <<",">> \o Indent \o Quote(KeyData) \o <<":", " ">> \o Quote(scrape.data)
    \o <<"\n", "}">>

\* JSON.parse (line 135) on objects whose members are strings; anything else
\* is a SyntaxError (ok = FALSE).
Ws == {" ", "\n", "\t", "\r"}
ControlChars == {"\n", "\t", "\r"}
Unescape == ("\"" :> "\"") @@ ("\\" :> "\\") @@ ("/" :> "/")
            @@ ("n" :> "\n") @@ ("t" :> "\t") @@ ("r" :> "\r")
SyntaxError == [ok |-> FALSE, val |-> <<>>, next |-> 0]

RECURSIVE SkipWs(_, _)
SkipWs(s, i) == IF i <= Len(s) /\ s[i] \in Ws THEN SkipWs(s, i + 1) ELSE i

RECURSIVE ReadChars(_, _, _)
ReadChars(s, i, acc) ==
    IF i > Len(s) THEN SyntaxError
    ELSE IF s[i] = "\"" THEN [ok |-> TRUE, val |-> acc, next |-> i + 1]
    ELSE IF s[i] = "\\"
         THEN IF i + 1 > Len(s) \/ s[i + 1] \notin DOMAIN Unescape
              THEN SyntaxError
              ELSE ReadChars(s, i + 2, Append(acc, Unescape[s[i + 1]]))
    ELSE IF s[i] \in ControlChars THEN SyntaxError
    ELSE ReadChars(s, i + 1, Append(acc, s[i]))

ReadString(s, i) ==
    IF i <= Len(s) /\ s[i] = "\"" THEN ReadChars(s, i + 1, <<>>) ELSE SyntaxError

EmptyObject == [k \in {} |-> <<>>]

RECURSIVE ReadMembers(_, _, _)
ReadMembers(s, i, obj) ==
    LET k == ReadString(s, i) IN
    IF ~k.ok THEN SyntaxError ELSE
    LET c == SkipWs(s, k.next) IN
    IF c > Len(s) \/ s[c] # ":" THEN SyntaxError ELSE
    LET v == ReadString(s, SkipWs(s, c + 1)) IN
    IF ~v.ok THEN SyntaxError ELSE
    LET e == SkipWs(s, v.next)
        obj2 == (k.val :> v.val) @@ obj IN
    IF e > Len(s) THEN SyntaxError
    ELSE IF s[e] = "," THEN ReadMembers(s, SkipWs(s, e + 1), obj2)
    ELSE IF s[e] = "}" THEN [ok |-> TRUE, val |-> obj2, next |-> e + 1]
    ELSE SyntaxError

JSONparse(s) ==
    LET b == SkipWs(s, 1) IN
    IF b > Len(s) \/ s[b] # "{" THEN SyntaxError ELSE
    LET m == SkipWs(s, b + 1)
        r == IF m <= Len(s) /\ s[m] = "}"
             THEN [ok |-> TRUE, val |-> EmptyObject, next |-> m + 1]
             ELSE ReadMembers(s, m, EmptyObject) IN
    IF r.ok /\ SkipWs(s, r.next) = Len(s) + 1 THEN r ELSE SyntaxError

\* scrape.url, scrape.timestamp, scrape.data of a parsed object (line 142);
\* a missing member prints as "undefined" in the template literal.
Member(obj, key) == IF key \in DOMAIN obj THEN obj[key] ELSE <<"undefined">>

\* The messages of the chat completion request (lines 140-144).
Messages(obj, query) ==
    << [role |-> "system", content |-> <<"You are a helpful assistant.">>],
       [role |-> "user",
        content |-> <<"Here is some data from ">> \o Member(obj, KeyUrl)
                    \o <<" at ">> \o Member(obj, KeyTimestamp)
                    \o <<": ">> \o Member(obj, KeyData)],
       [role |-> "user", content |-> <<query>>] >>

\* (a, b) => b.birthtimeMs - a.birthtimeMs (line 127)
Compare_Ascending(a, b) == a.birthtimeMs - b.birthtimeMs

Compare(a, b) == b.birthtimeMs - a.birthtimeMs

\* Array.prototype.sort with that comparator: a stable sort.
RECURSIVE Insert(_, _)
Insert(x, sorted) ==
    IF sorted = <<>> THEN <<x>>
    ELSE IF Compare(Head(sorted), x) <= 0 THEN <<Head(sorted)>> \o Insert(x, Tail(sorted))
    ELSE <<x>> \o sorted

RECURSIVE Sort(_)
Sort(xs) == IF xs = <<>> THEN <<>> ELSE Insert(xs[Len(xs)], Sort(SubSeq(xs, 1, Len(xs) - 1)))

Range(s) == {s[i] : i \in DOMAIN s}
Orderings(S) == {p \in [1..Cardinality(S) -> S] : Range(p) = S}

\* ------------------------------------------------------------------ state
VARIABLES
    now,        \* the system clock in milliseconds (Date.now())
    dirExists,  \* whether SCRAPES_DIR exists
    startup,    \* position of ensureScrapesDir(): "access", "mkdir" or "done"
    files,      \* SCRAPES_DIR: file name -> [content, birthtimeMs, written]
    req,        \* the handlers in flight: slot -> handler state
    out         \* the response sent last

vars == <<now, dirExists, startup, files, req, out>>

EmptyStore == [f \in {} |-> <<>>]
NoScrape == [url |-> <<>>, timestamp |-> <<>>, data |-> <<>>]
NoAnswer == [has |-> FALSE, val |-> ""]

\* A slot with no handler running.
Idle ==
    [kind |-> "none", pc |-> "idle",
     url |-> Undefined, scrape |-> NoScrape, filename |-> <<>>,
     query |-> NoQuery, file |-> Undefined, files |-> <<>>, filepath |-> <<>>,
     messages |-> <<>>]

\* A response: c.json(body, status). fetched and called tell whether the
\* handler had started the outbound GET, respectively the provider call.
NoResponse ==
    [kind |-> "none", status |-> 0, error |-> "", message |-> "", file |-> <<>>,
     answer |-> NoAnswer, fetched |-> FALSE, called |-> FALSE]

ErrorResponse(r, status, error) ==
    [NoResponse EXCEPT !.kind = r.kind, !.status = status, !.error = error,
                       !.fetched = r.pc \in {"fetch", "write"},
                       !.called = r.pc = "llm"]

\* New handlers take the lowest free slot.
Free(r) == req[r].pc = "idle" /\ \A s \in Reqs : s < r => req[s].pc # "idle"

Init ==
    /\ now = 0
    /\ dirExists \in BOOLEAN
    /\ startup = "access"
    /\ files = EmptyStore
    /\ req = [r \in Reqs |-> Idle]
    /\ out = NoResponse

\* ------------------------------------------------------ ensureScrapesDir
\* fs.access(SCRAPES_DIR) settles (line 34).
StartupAccess ==
    /\ startup = "access"
    /\ startup' = IF dirExists THEN "done" ELSE "mkdir"
    /\ UNCHANGED <<now, dirExists, files, req, out>>

\* fs.mkdir(SCRAPES_DIR, { recursive: true }) settles (line 36).
StartupMkdir ==
    /\ startup = "mkdir"
    /\ dirExists' = TRUE
    /\ startup' = "done"
    /\ UNCHANGED <<now, files, req, out>>

\* ----------------------------------------------------------- POST /scrape
\* Lines 45-55: parse the body, validate url, start the outbound GET.
ScrapeRequest(r, url) ==
    /\ Free(r)
    /\ LET new == [Idle EXCEPT !.kind = "scrape", !.url = url] IN
       IF UrlMissing(url)
       THEN /\ out' = ErrorResponse(new, 400, "URL is required")
            /\ req' = req
       ELSE /\ req' = [req EXCEPT ![r] = [new EXCEPT !.pc = "fetch"]]
            /\ out' = out
    /\ UNCHANGED <<now, dirExists, startup, files>>

\* Lines 55-76: the GET answered with html; extract the text, build the
\* record, name the file after the clock and start writing it. The two clock
\* reads (lines 67 and 72) are in one synchronous block and read one value.
ScrapeFetched(r, html) ==
    /\ req[r].pc = "fetch"
    /\ req' = [req EXCEPT ![r] =
                 [@ EXCEPT !.pc = "write",
                           !.scrape = [url |-> req[r].url.val,
                                       timestamp |-> ToISOString(now),
                                       data |-> BodyText(html)],
                           !.filename = Filename(now)]]
    /\ UNCHANGED <<now, dirExists, startup, files, out>>

\* Lines 55, 80-82: the GET failed.
ScrapeFetchFailed(r) ==
    /\ req[r].pc = "fetch"
    /\ out' = ErrorResponse(req[r], 500, "Failed to scrape the provided URL")
    /\ req' = [req EXCEPT ![r] = Idle]
    /\ UNCHANGED <<now, dirExists, startup, files>>

\* fs.writeFile(filepath, text) (line 76): creates the file, or truncates and
\* rewrites an existing one, whose birth time stays.
WriteFile(store, name, text, written) ==
    IF name \in DOMAIN store
    THEN [store EXCEPT ![name] = [@ EXCEPT !.content = text, !.written = written]]
    ELSE (name :> [content |-> text, birthtimeMs |-> now, written |-> written]) @@ store

\* Lines 76-82: the write settled (ENOENT without the directory).
ScrapeWritten(r) ==
    /\ req[r].pc = "write"
    /\ IF dirExists
       THEN /\ files' = WriteFile(files, req[r].filename,
                                  Stringify(req[r].scrape), req[r].scrape)
            /\ out' = [NoResponse EXCEPT !.kind = "scrape", !.status = 200,
                                         !.message = "Scraping completed successfully",
                                         !.file = req[r].filename,
                                         !.fetched = TRUE]
       ELSE /\ out' = ErrorResponse(req[r], 500, "Failed to scrape the provided URL")
            /\ files' = files
    /\ req' = [req EXCEPT ![r] = Idle]
    /\ UNCHANGED <<now, dirExists, startup>>

\* ------------------------------------------------------------ POST /query
\* Lines 88-111: parse the body, validate query, then either check the named
\* file (fs.access) or list the directory (fs.readdir).
QueryRequest(r, query, file) ==
    /\ Free(r)
    /\ LET new == [Idle EXCEPT !.kind = "query", !.query = query, !.file = file] IN
       IF QueryMissing(query)
       THEN /\ out' = ErrorResponse(new, 400, "Query is required")
            /\ req' = req
       ELSE /\ req' = [req EXCEPT ![r] =
                         IF file.has /\ file.val # <<>>
                         THEN [new EXCEPT !.pc = "access", !.filepath = file.val]
                         ELSE [new EXCEPT !.pc = "readdir"]]
            /\ out' = out
    /\ UNCHANGED <<now, dirExists, startup, files>>

\* fs.access(path) (line 103) resolves when the file exists.
Accessible_Always(path) == TRUE

Accessible(path) == dirExists /\ path \in DOMAIN files

\* fs.readFile(path) (line 134) succeeds when the file exists.
Readable(path) == dirExists /\ path \in DOMAIN files

\* Lines 102-106: the existence check settled.
QueryAccess(r) ==
    /\ req[r].pc = "access"
    /\ IF Accessible(req[r].filepath)
       THEN /\ req' = [req EXCEPT ![r] = [@ EXCEPT !.pc = "read"]]
            /\ out' = out
       ELSE /\ out' = ErrorResponse(req[r], 400, "Specified file does not exist")
            /\ req' = [req EXCEPT ![r] = Idle]
    /\ UNCHANGED <<now, dirExists, startup, files>>

\* Lines 111-124: readdir settled (in any directory order; ENOENT without the
\* directory); an empty listing is answered 400, else every file is stat'ed.
QueryReaddir(r) ==
    /\ req[r].pc = "readdir"
    /\ IF ~dirExists
       THEN /\ out' = ErrorResponse(req[r], 500, "Failed to process the query with ChatGPT")
            /\ req' = [req EXCEPT ![r] = Idle]
       ELSE \E listing \in Orderings(DOMAIN files) :
              IF Len(listing) = 0
              THEN /\ out' = ErrorResponse(req[r], 400,
                               "No scraped data available. Please scrape a URL first.")
                   /\ req' = [req EXCEPT ![r] = Idle]
              ELSE /\ req' = [req EXCEPT ![r] = [@ EXCEPT !.pc = "stat", !.files = listing]]
                   /\ out' = out
    /\ UNCHANGED <<now, dirExists, startup, files>>

\* files.map(... fs.stat ...) (lines 118-124)
FilesWithStats(listing) ==
    [i \in DOMAIN listing |->
        [file |-> listing[i], birthtimeMs |-> files[listing[i]].birthtimeMs]]

\* Lines 118-134: the stats settled (Promise.all rejects when a listed file
\* is gone); sort by birth time, newest first, and start reading the first.
QueryStat(r) ==
    /\ req[r].pc = "stat"
    /\ IF \E i \in DOMAIN req[r].files : req[r].files[i] \notin DOMAIN files
       THEN /\ out' = ErrorResponse(req[r], 500, "Failed to process the query with ChatGPT")
            /\ req' = [req EXCEPT ![r] = Idle]
       ELSE /\ req' = [req EXCEPT ![r] =
                         [@ EXCEPT !.pc = "read", !.files = <<>>,
                                   !.filepath = Sort(FilesWithStats(req[r].files))[1].file]]
            /\ out' = out
    /\ UNCHANGED <<now, dirExists, startup, files>>

\* Lines 134-145: readFile settled (ENOENT when the file is gone); parse the
\* text, build the prompt and call the provider.
QueryRead(r) ==
    /\ req[r].pc = "read"
    /\ LET scrape == JSONparse(files[req[r].filepath].content) IN
       IF Readable(req[r].filepath) /\ scrape.ok
       THEN /\ req' = [req EXCEPT ![r] =
                         [@ EXCEPT !.pc = "llm",
                                   !.messages = Messages(scrape.val, req[r].query.val)]]
            /\ out' = out
       ELSE /\ out' = ErrorResponse(req[r], 500, "Failed to process the query with ChatGPT")
            /\ req' = [req EXCEPT ![r] = Idle]
    /\ UNCHANGED <<now, dirExists, startup, files>>

\* completion.data.choices[0].message?.content (line 148)
Answer(choices) ==
    IF choices[1].hasMessage /\ choices[1].hasContent
    THEN [has |-> TRUE, val |-> choices[1].content]
    ELSE NoAnswer

\* Lines 138-155: the provider answered. choices[0] of an empty list is
\* undefined, and reading .message of it throws.
QueryCompleted(r, choices) ==
    /\ req[r].pc = "llm"
    /\ out' = IF choices = <<>>
              THEN ErrorResponse(req[r], 500, "Failed to process the query with ChatGPT")
              ELSE [NoResponse EXCEPT !.kind = "query", !.status = 200,
                                      !.answer = Answer(choices), !.called = TRUE]
    /\ req' = [req EXCEPT ![r] = Idle]
    /\ UNCHANGED <<now, dirExists, startup, files>>

\* Lines 138, 152-155: the provider call failed.
QueryProviderFailed(r) ==
    /\ req[r].pc = "llm"
    /\ out' = ErrorResponse(req[r], 500, "Failed to process the query with ChatGPT")
    /\ req' = [req EXCEPT ![r] = Idle]
    /\ UNCHANGED <<now, dirExists, startup, files>>

\* ------------------------------------------------------------ environment
\* The clock advances.
Tick ==
    /\ now < MaxClock
    /\ now' = now + 1
    /\ UNCHANGED <<dirExists, startup, files, req, out>>

\* Another process removes a record file.
ExternalDelete(f) ==
    /\ f \in DOMAIN files
    /\ files' = [g \in DOMAIN files \ {f} |-> files[g]]
    /\ UNCHANGED <<now, dirExists, startup, req, out>>

FileArgs == {Undefined} \cup {Str(f) : f \in Filenames}

Next ==
    \/ StartupAccess
    \/ StartupMkdir
    \/ Tick
    \/ \E f \in Filenames : ExternalDelete(f)
    \/ \E r \in Reqs :
         \/ \E url \in Urls : ScrapeRequest(r, url)
         \/ \E html \in Pages : ScrapeFetched(r, html)
         \/ ScrapeFetchFailed(r)
         \/ ScrapeWritten(r)
         \/ \E query \in Queries, file \in FileArgs : QueryRequest(r, query, file)
         \/ QueryAccess(r)
         \/ QueryReaddir(r)
         \/ QueryStat(r)
         \/ QueryRead(r)
         \/ \E choices \in Completions : QueryCompleted(r, choices)
         \/ QueryProviderFailed(r)

Spec == Init /\ [][Next]_vars

\* ================================================================ claims
EmptyStoreMessage == "No scraped data available. Please scrape a URL first."

\* The handler in slot r sends its response in this step.
Responds(r) == req[r].pc # "idle" /\ req'[r].pc = "idle"

\* The user message a prompt built from record w carries.
PromptOf(w) ==
    <<"Here is some data from ">> \o w.url \o <<" at ">> \o w.timestamp
    \o <<": ">> \o w.data

\* C1: every successful POST /scrape creates exactly one new record, with the
\* url of the request and the extracted text, so k successful scrapes leave k
\* more records, each response naming its own record.
C1_EachScrapeCreatesOneRecord ==
    [][\A r \in Reqs :
         (req[r].pc = "write" /\ Responds(r) /\ out'.status = 200) =>
            /\ out'.file \notin DOMAIN files
            /\ DOMAIN files' = DOMAIN files \cup {out'.file}
            /\ files'[out'.file].written.url = req[r].url.val
            /\ files'[out'.file].written.data = req[r].scrape.data]_vars

\* C2: POST /scrape with a missing or empty url responds 400 'URL is
\* required', starts no outbound fetch and leaves the store unchanged.
C2_MissingUrlRejected ==
    [][\A r \in Reqs, url \in Urls :
         ((~url.has \/ url.val = <<>>) /\ ScrapeRequest(r, url)) =>
            /\ out'.kind = "scrape" /\ out'.status = 400
            /\ out'.error = "URL is required"
            /\ ~out'.fetched
            /\ req' = req
            /\ files' = files]_vars

C2_Witness ==
    /\ out.kind = "scrape" /\ out.status = 400 /\ out.error = "URL is required"
    /\ ~out.fetched
    /\ files # EmptyStore

C4_EmptyStoreAnswered400 ==
    [][\A r \in Reqs :
         (req[r].pc = "readdir" /\ Responds(r) /\ files = EmptyStore) =>
            /\ out'.status = 400 /\ out'.error = EmptyStoreMessage
            /\ ~out'.called]_vars

C7_AnswerMissingIs500 ==
    (out.kind = "query" /\ out.status = 200) => out.answer.has

\* C8: no step of a /scrape or /query handler changes the content stored
\* under an existing identifier or removes it.
C8_RecordsImmutable ==
    [][(req' # req \/ out' # out) =>
          \A f \in DOMAIN files :
              f \in DOMAIN files' /\ files'[f].content = files[f].content]_vars

\* C9: when the selected record is gone by the time it is read, the query
\* responds 400 and calls no provider.
C9_DeletedRecordIs400 ==
    [][\A r \in Reqs :
         (req[r].pc = "read" /\ req'[r] # req[r]
            /\ req[r].filepath \notin DOMAIN files) =>
            /\ out'.status = 400
            /\ ~out'.called]_vars

\* C10: the storage directory exists whenever a /scrape handler's file write
\* is carried out.
C10_DirExistsBeforeWrite ==
    [][\A r \in Reqs : (req[r].pc = "write" /\ req'[r] # req[r]) => dirExists]_vars
====
